---- MODULE Spec2Model ----
(***************************************************************************)
(* Model of the media indexing and retrieval core of video-map-agent:      *)
(* the registry of media indexes (table_manager.py), the ingestion         *)
(* pipeline (media_analyzer.py, media_tools.py, tools.py) and the          *)
(* similarity search engine (media_search_engine.py).                      *)
(*                                                                         *)
(* begin_time and finish_time of a search result are kept in milliseconds  *)
(* so that every value is an integer.                                      *)
(***************************************************************************)
EXTENDS Integers, Sequences, FiniteSets, TLC

(***************************************************************************)
(* Bounds of the model.                                                    *)
(***************************************************************************)
\* number of distinct values of uuid4().hex[-4:] the model draws from
\* (the code has 16^4 of them)
NumSuffix == 2
\* wall-clock seconds the model distinguishes
MaxTime == 2
\* rows a segment view holds at most
MaxRows == 2
\* similarity scores are drawn from 0..MaxScore
MaxScore == 1
\* top_k is drawn from 0..MaxK
MaxK == 3
\* milliseconds between two sampled frames of a video
FrameStepMs == 500
\* seconds of sound a media file holds at most
MaxAudioSec == 21

\* callers of the tools; one call runs at a time under Spec
Threads == {"t1", "t2"}
\* media identifiers (= content paths); the empty string is a possible input
MediaIds == {"", "a", "b"}
Suffixes == 0 .. (NumSuffix - 1)
\* the seconds :09, :10, ... of one minute of the wall clock
Times == 9 .. (8 + MaxTime)
FirstSecond == CHOOSE s \in Times : \A u \in Times : s <= u


VARIABLES
    disk,                   \* .storage_records: [dir: BOOLEAN, files: name -> file text]
    clock,                  \* the last wall-clock second datetime.now() returned
    catalog,                \* pixeltable: directory name -> [tables, media]
    heap,                   \* the dict objects of the process: "D0" (module level), "D1" (loaded)
    MEDIA_INDEXES_STORAGE,  \* the global name: which dict object it is bound to
    lru,                    \* lru_cache of get_table_registry: "miss" or the cached object
    content_processor,      \* the attributes of the one MediaAnalyzer of tools.py
    pc,                     \* position of each caller
    call,                   \* arguments and bookkeeping of each caller's current call
    ret,                    \* outcome of each caller's current call
    history                 \* what completed calls did, kept for the properties

vars == <<disk, clock, catalog, heap, MEDIA_INDEXES_STORAGE, lru,
          content_processor, pc, call, ret, history>>

(***************************************************************************)
(* Python values.                                                          *)
(***************************************************************************)
\* None, and an attribute that was never assigned
None == [type |-> "NoneType"]
Unset == [type |-> "unset"]
\* True / False
Bool(b) == [type |-> "bool", val |-> b]
\* a pixeltable table handle
Table(name) == [type |-> "Table", name |-> name]

EmptyDict == [k \in {} |-> None]

Put(d, k, v) == [x \in (DOMAIN d) \cup {k} |-> IF x = k THEN v ELSE d[x]]

\* a str holding JSON text, an IndexedTableInfo object, a dict
Str(s) == [type |-> "str", val |-> s]
Obj(r) == [type |-> "IndexedTableInfo", val |-> r]
Dict(d) == [type |-> "dict", val |-> d]

Ok(v) == [ok |-> TRUE, val |-> v]
Raise(e) == [ok |-> FALSE, exc |-> e]

(***************************************************************************)
(* config.py                                                               *)
(***************************************************************************)
Settings ==
    [ FRAME_EXTRACTION_RATE |-> 45,
      SOUND_SEGMENT_DURATION |-> 10,
      SOUND_OVERLAP_DURATION |-> 1,
      MIN_SOUND_SEGMENT_LENGTH |-> 1,
      IMAGE_RESIZE_WIDTH |-> 1024,
      IMAGE_RESIZE_HEIGHT |-> 768,
      DELTA_SECONDS_FRAME_INTERVAL |-> 5,
      VIDEO_CLIP_SPEECH_SEARCH_TOP_K |-> 1,
      VIDEO_CLIP_CAPTION_SEARCH_TOP_K |-> 1,
      VIDEO_CLIP_IMAGE_SEARCH_TOP_K |-> 1,
      QUESTION_ANSWER_TOP_K |-> 3 ]

\* attribute access on the Settings object: a field that Settings does not
\* declare raises AttributeError (extra="ignore" drops undeclared keys)
ConfigAttr(name) ==
    IF name \in DOMAIN Settings THEN Ok(Settings[name]) ELSE Raise("AttributeError")

(***************************************************************************)
(* data_models.py and the JSON conversions of table_manager.py             *)
(***************************************************************************)
InfoFields ==
    <<"media_identifier", "storage_cache", "content_table",
      "visual_segments_view", "sound_segments_view">>

\* IndexedTableInfo.model_dump_json(): the JSON text, one member per field
model_dump_json(info) == [i \in DOMAIN InfoFields |-> <<InfoFields[i], info[InfoFields[i]]>>]

\* json.loads of a JSON object text: a dict keyed by the member names
json_loads(text) ==
    [k \in {text[i][1] : i \in DOMAIN text} |->
        (text[CHOOSE i \in DOMAIN text : text[i][1] = k])[2]]

\* IndexedTableInfo(**d): every field is required
IndexedTableInfo(d) ==
    [ media_identifier |-> d["media_identifier"],
      storage_cache |-> d["storage_cache"],
      content_table |-> d["content_table"],
      visual_segments_view |-> d["visual_segments_view"],
      sound_segments_view |-> d["sound_segments_view"] ]

\* the text of a file opened with "w" before anything is written to it
EmptyFile == [members |-> {}, whole |-> FALSE]

\* json.dump(MEDIA_INDEXES_STORAGE, f): the members of the file's JSON object,
\* in a text that is one whole JSON document
json_dump(d) == [members |-> {<<k, d[k].val>> : k \in DOMAIN d}, whole |-> TRUE]

\* json.load(f) raises json.JSONDecodeError on a text that is not one whole
\* JSON document (empty, truncated, damaged)
json_parses(file) == file.whole

\* json.load(f): a new dict of identifier -> str
json_load(file) ==
    [k \in {m[1] : m \in file.members} |->
        Str((CHOOSE m \in file.members : m[1] = k)[2])]

(***************************************************************************)
(* pixeltable: the catalog of directories and tables.  A directory is      *)
(* named "storage_<suffix>", a table "<directory>.<name>".                  *)
(***************************************************************************)
storage_name(suffix) == <<"storage", suffix>>
content_name(cache_directory) == Append(cache_directory, "content")
visuals_name(cache_directory) == Append(cache_directory, "content_visuals")
audio_parts_name(cache_directory) == Append(cache_directory, "content_audio_parts")

dir_of(table_name) == SubSeq(table_name, 1, 2)

table_exists(cat, table_name) ==
    /\ dir_of(table_name) \in DOMAIN cat
    /\ table_name \in cat[dir_of(table_name)].tables

\* pxt.get_table(path): the handle of an existing table, an error otherwise
get_table(cat, table_name) ==
    IF table_exists(cat, table_name) THEN Ok(Table(table_name)) ELSE Raise("pxt.Error")

\* pxt.create_dir(path, if_exists="replace_force"): an existing directory of
\* that name is dropped with everything in it
create_dir(cat, cache_directory) ==
    Put(cat, cache_directory, [tables |-> {}, media |-> {}, audio_parts |-> EmptyDict])

\* pxt.create_table / pxt.create_view: the table exists afterwards
create_table(cat, table_name) ==
    [cat EXCEPT ![dir_of(table_name)].tables = @ \cup {table_name}]

(***************************************************************************)
(* table_manager.py                                                        *)
(***************************************************************************)
\* str <= str of Python on the names of the snapshot files: the characters
\* are compared from the left, and a proper prefix is the lesser string
str_le(a, b) ==
    \/ a = b
    \/ \E i \in 1 .. Len(b) :
           /\ \A j \in 1 .. (i - 1) : j <= Len(a) /\ a[j] = b[j]
           /\ (i > Len(a) \/ a[i] < b[i])

\* the file with the least name
oldest_file(registry_files) ==
    CHOOSE f \in registry_files : \A g \in registry_files : str_le(f, g)

\* max(registry_files): file names differ only in the timestamp
most_recent_file(registry_files) ==
    CHOOSE f \in registry_files : \A g \in registry_files : str_le(g, f)

\* the dict object a reference names
Deref(h, ref) == h[ref]

\* an except clause that also catches the parse error of json.load
catches_any(exc) == TRUE

\* except FileNotFoundError: the only exception get_table_registry handles
catches(exc) == exc = "FileNotFoundError"

\* a cache that keeps no result
lru_cache_forgets(result) == "miss"

\* @lru_cache(maxsize=1) on a function without parameters: the one result it
\* returned is kept for the life of the process
lru_cache(result) == result

\* get_table_registry(): the memory after the call, the object returned, the
\* exception that left the function ("" when it returned) and whether the
\* snapshot directory was read.  With a cached result the body does not run;
\* lru_cache stores nothing when the body raises.
get_table_registry ==
    LET returns(h, obj, read) ==
            [heap |-> h, global |-> obj, lru |-> lru_cache(obj), ret |-> obj,
             exc |-> "", read |-> read]
        raises(exc) ==
            [heap |-> heap, global |-> MEDIA_INDEXES_STORAGE, lru |-> "miss",
             ret |-> MEDIA_INDEXES_STORAGE, exc |-> exc, read |-> TRUE]
    IN
    IF lru # "miss"
    THEN [heap |-> heap, global |-> MEDIA_INDEXES_STORAGE, lru |-> lru, ret |-> lru,
          exc |-> "", read |-> FALSE]
    ELSE IF DOMAIN heap[MEDIA_INDEXES_STORAGE] = {}
         THEN IF ~disk.dir
              THEN \* os.listdir raises FileNotFoundError
                   IF catches("FileNotFoundError")
                   THEN returns(heap, MEDIA_INDEXES_STORAGE, TRUE)
                   ELSE raises("FileNotFoundError")
              ELSE IF DOMAIN disk.files = {}
              THEN returns(heap, MEDIA_INDEXES_STORAGE, TRUE)
              ELSE LET most_recent_registry == most_recent_file(DOMAIN disk.files)
                       loaded == json_load(disk.files[most_recent_registry])
                       converted ==
                           [identifier \in DOMAIN loaded |->
                               Obj(IndexedTableInfo(
                                   IF loaded[identifier].type = "str"
                                   THEN json_loads(loaded[identifier].val)
                                   ELSE loaded[identifier].val))]
                   IN  IF json_parses(disk.files[most_recent_registry])
                       THEN returns([heap EXCEPT !["D1"] = converted], "D1", TRUE)
                       ELSE IF catches("JSONDecodeError")
                       THEN returns(heap, MEDIA_INDEXES_STORAGE, TRUE)
                       ELSE raises("JSONDecodeError")
         ELSE returns(heap, MEDIA_INDEXES_STORAGE, FALSE)

\* a timestamp whose fields are not padded with zeros
strftime_unpadded(now) == IF now < 10 THEN <<now>> ELSE <<now \div 10, now % 10>>

\* strftime("%Y-%m-%d%H:%M:%S"): every field is zero-padded; within the
\* minute the model covers only the two digits of %S differ
strftime(now) == <<now \div 10, now % 10>>

\* the file name registry_<%Y-%m-%d%H:%M:%S>.json: one name per second
snapshot_name(now) == strftime(now)

\* register_new_index, lines 70-77: the entry is built and stored, as JSON
\* text, under its identifier in the dict the global names
\* a registration that rebinds the registry to a dict of the new entry alone
register_insert_fresh(h, media_identifier, storage_cache, visual_segments_name, sound_segments_name) ==
    [h EXCEPT ![MEDIA_INDEXES_STORAGE] =
        Put(EmptyDict, media_identifier,
            Str(model_dump_json(
                [ media_identifier |-> media_identifier,
                  storage_cache |-> storage_cache,
                  content_table |-> content_name(storage_cache),
                  visual_segments_view |-> visual_segments_name,
                  sound_segments_view |-> sound_segments_name ])))]

register_insert(h, media_identifier, storage_cache, visual_segments_name, sound_segments_name) ==
    LET indexed_table_info ==
            model_dump_json(
                [ media_identifier |-> media_identifier,
                  storage_cache |-> storage_cache,
                  content_table |-> content_name(storage_cache),
                  visual_segments_view |-> visual_segments_name,
                  sound_segments_view |-> sound_segments_name ])
    IN  [h EXCEPT ![MEDIA_INDEXES_STORAGE] = Put(@, media_identifier, Str(indexed_table_info))]

\* register_new_index, lines 79-83: the directory is made and the file of
\* this second is opened with "w", which creates it or empties it
register_open(d, now) ==
    [dir |-> TRUE, files |-> Put(d.files, snapshot_name(now), EmptyFile)]

\* register_new_index, lines 84-88: the loop over the dict turns every value
\* into JSON text and json.dump writes the dict.  iter_size is the size the
\* dict had when the loop began: a dict that changed size since makes the
\* iterator raise RuntimeError, and the file stays as it was opened.
register_dump(h, d, file_name, iter_size) ==
    LET dumped == [key \in DOMAIN h[MEDIA_INDEXES_STORAGE] |->
                      IF h[MEDIA_INDEXES_STORAGE][key].type = "IndexedTableInfo"
                      THEN Str(model_dump_json(h[MEDIA_INDEXES_STORAGE][key].val))
                      ELSE h[MEDIA_INDEXES_STORAGE][key]]
    IN  IF Cardinality(DOMAIN h[MEDIA_INDEXES_STORAGE]) # iter_size
        THEN [heap |-> h, disk |-> d, exc |-> "RuntimeError"]
        ELSE [ heap |-> [h EXCEPT ![MEDIA_INDEXES_STORAGE] = dumped],
               disk |-> [d EXCEPT !.files[file_name] = json_dump(dumped)],
               exc |-> "" ]

\* register_new_index(...) at wall-clock second now, run without another
\* thread in between: the heap and the snapshot directory after the call
\* a registration that updates a copy of the registry, not the registry
register_new_index_copy(media_identifier, storage_cache, visual_segments_name, sound_segments_name, now) ==
    LET inserted == register_insert(heap, media_identifier, storage_cache,
                                    visual_segments_name, sound_segments_name)
        opened == register_open(disk, now)
        written == register_dump(inserted, opened, snapshot_name(now),
                                 Cardinality(DOMAIN inserted[MEDIA_INDEXES_STORAGE]))
    IN  [heap |-> [heap EXCEPT !["D1"] = written.heap[MEDIA_INDEXES_STORAGE]],
         disk |-> written.disk]

register_new_index(media_identifier, storage_cache, visual_segments_name, sound_segments_name, now) ==
    LET inserted == register_insert(heap, media_identifier, storage_cache,
                                    visual_segments_name, sound_segments_name)
        opened == register_open(disk, now)
        written == register_dump(inserted, opened, snapshot_name(now),
                                 Cardinality(DOMAIN inserted[MEDIA_INDEXES_STORAGE]))
    IN  [heap |-> written.heap, disk |-> written.disk]

\* IndexedTable.from_info(table_info)
from_info(cat, table_info) ==
    IF table_info.type = "NoneType"
    THEN Raise("AttributeError")      \* None.media_identifier
    ELSE LET info == IF table_info.type = "dict"
                     THEN IndexedTableInfo(table_info.val)
                     ELSE table_info.val
             content_table == get_table(cat, info.content_table)
             visual_segments_view == get_table(cat, info.visual_segments_view)
             sound_segments_view == get_table(cat, info.sound_segments_view)
         IN  IF ~content_table.ok THEN content_table
             ELSE IF ~visual_segments_view.ok THEN visual_segments_view
             ELSE IF ~sound_segments_view.ok THEN sound_segments_view
             ELSE Ok([ media_identifier |-> info.media_identifier,
                       storage_cache |-> info.storage_cache,
                       content_table |-> content_table.val,
                       visual_segments_view |-> visual_segments_view.val,
                       sound_segments_view |-> sound_segments_view.val ])

\* a lookup that falls back to some registered entry when the key is absent
registry_get_any(table_registry, media_identifier) ==
    IF media_identifier \in DOMAIN table_registry
    THEN table_registry[media_identifier]
    ELSE IF DOMAIN table_registry # {}
    THEN table_registry[CHOOSE k \in DOMAIN table_registry : TRUE]
    ELSE None

\* table_registry.get(media_identifier): None when the key is absent
registry_get(table_registry, media_identifier) ==
    IF media_identifier \in DOMAIN table_registry
    THEN table_registry[media_identifier]
    ELSE None

\* fetch_table(media_identifier): the memory after get_table_registry() and
\* the IndexedTable or the exception
fetch_table(media_identifier) ==
    LET g == get_table_registry
        table_registry == Deref(g.heap, g.ret)
        got == registry_get(table_registry, media_identifier)
        table_info == IF got.type = "str"
                      THEN Dict(json_loads(got.val)) ELSE got
    IN  [mem |-> g,
         out |-> IF g.exc # "" THEN Raise(g.exc) ELSE from_info(catalog, table_info)]

(***************************************************************************)
(* media_tools.py                                                          *)
(***************************************************************************)
\* what the environment holds at a path: whether the file exists, whether
\* PyAV opens it, whether ffmpeg -c copy succeeds on it, and whether PyAV
\* opens the transcoded file
MediaFiles(durations) ==
    { f \in [exists : BOOLEAN, opens : BOOLEAN, ffmpeg_ok : BOOLEAN,
             transcoded_opens : BOOLEAN, audio_sec : durations] :
        /\ (~f.exists => ~f.opens /\ ~f.ffmpeg_ok)
        /\ (~f.ffmpeg_ok => ~f.transcoded_opens) }

\* the files of the calls whose sound track is of one length
SourceFiles == MediaFiles({MaxAudioSec})

original_path(file_path) == Str(<<"", file_path>>)
transcoded_path(file_path) == Str(<<"transcoded_", file_path>>)

\* bool(v) of a Python value
Truthy(v) ==
    CASE v.type = "bool" -> v.val
      [] v.type = "NoneType" -> FALSE
      [] OTHER -> TRUE

\* transcode_media_file(file_path).  The try block returns the original path
\* when it opens, but the finally block runs in every case and each of its
\* paths returns, which replaces the value the try block was returning.
transcode_media_file(file_path, file) ==
    IF ~file.exists
    THEN Bool(FALSE)
    ELSE LET in_try == IF file.opens THEN original_path(file_path) ELSE None
             in_finally ==
                 IF file.ffmpeg_ok
                 THEN IF file.transcoded_opens
                      THEN transcoded_path(file_path)
                      ELSE None
                 ELSE None
             \* a return inside finally discards the pending return of try
             finally_returns == TRUE
         IN  IF finally_returns THEN in_finally ELSE in_try

\* whether transcode_media_file(file_path) runs ffmpeg: the subprocess call
\* is in the finally block, which runs whether or not the file opened
runs_ffmpeg(file) == file.exists

\* how often transcode_media_file opens a file to validate it: the original
\* once, and the transcoded file once when ffmpeg succeeded
open_checks(file) ==
    IF ~file.exists THEN 0 ELSE IF file.ffmpeg_ok THEN 2 ELSE 1

(***************************************************************************)
(* media_analyzer.py: the MediaAnalyzer object                             *)
(***************************************************************************)
\* MediaAnalyzer(): __init__ assigns only underscore-prefixed attributes
NewMediaAnalyzer ==
    [ index_mapping_key |-> None,
      cache_directory |-> Unset,
      content_table_name |-> Unset,
      visual_segments_name |-> Unset,
      sound_segments_name |-> Unset,
      media_table |-> Unset,
      visual_segments_view |-> Unset,
      sound_segments |-> Unset ]

\* an existence check that never finds the identifier
verify_existence_never(registered_tables, media_path) == FALSE

\* _verify_existence(media_path) against the registry returned
verify_existence(registered_tables, media_path) ==
    media_path \in DOMAIN registered_tables

\* uuid.uuid4().hex[-4:]: the suffixes a call may draw
uuid_suffixes == Suffixes

\* _initialize_storage_structure(): the catalog afterwards
initialize_storage_structure(cat, cp) ==
    LET made_dir == create_dir(cat, cp.cache_directory.val)
        with_content == create_table(made_dir, cp.content_table_name.val)
        with_audio == create_table(with_content, cp.sound_segments_name.val)
    IN  create_table(with_audio, cp.visual_segments_name.val)

\* the calls of _initialize_storage_structure that create something, in the
\* order they are made
structure_steps == <<"create_dir", "content_table", "sound_segments", "visual_segments">>

\* _initialize_storage_structure() when the call after the first n creating
\* calls raises (pixeltable or a model provider refuses): the catalog left
storage_structure_until(cat, cp, n) ==
    LET made_dir == IF n >= 1 THEN create_dir(cat, cp.cache_directory.val) ELSE cat
        with_content == IF n >= 2
                        THEN create_table(made_dir, cp.content_table_name.val)
                        ELSE made_dir
        with_audio == IF n >= 3
                      THEN create_table(with_content, cp.sound_segments_name.val)
                      ELSE with_content
    IN  IF n >= 4 THEN create_table(with_audio, cp.visual_segments_name.val) ELSE with_audio

\* the AudioSplitter arguments with overlap_sec and min_chunk_duration_sec
\* left at their defaults
splitter_defaults ==
    [ chunk_duration_sec |-> Settings.SOUND_SEGMENT_DURATION,
      overlap_sec |-> 0,
      min_chunk_duration_sec |-> 0 ]

\* the arguments _configure_sound_analysis passes to AudioSplitter.create
splitter_arguments ==
    [ chunk_duration_sec |-> Settings.SOUND_SEGMENT_DURATION,
      overlap_sec |-> Settings.SOUND_OVERLAP_DURATION,
      min_chunk_duration_sec |-> Settings.MIN_SOUND_SEGMENT_LENGTH ]

\* pixeltable's AudioSplitter from position current_pos on: chunks of
\* chunk_duration_sec, each starting overlap_sec before the end of the one
\* before it, the last one ending with the sound track
RECURSIVE chunks_from(_, _, _)
chunks_from(current_pos, end_time, args) ==
    IF current_pos >= end_time
    THEN <<>>
    ELSE LET chunk_end == IF current_pos + args.chunk_duration_sec < end_time
                          THEN current_pos + args.chunk_duration_sec
                          ELSE end_time
             chunk == [start_time_sec |-> current_pos, end_time_sec |-> chunk_end]
         IN  IF chunk_end >= end_time
             THEN <<chunk>>
             ELSE <<chunk>> \o chunks_from(chunk_end - args.overlap_sec, end_time, args)

\* the rows of the sound segments view for a sound track of audio_sec
\* seconds: a last chunk shorter than min_chunk_duration_sec is dropped
audio_splitter(audio_sec, args) ==
    LET chunks == chunks_from(0, audio_sec, args)
        last == chunks[Len(chunks)]
    IN  IF Len(chunks) > 0
            /\ last.end_time_sec - last.start_time_sec < args.min_chunk_duration_sec
        THEN SubSeq(chunks, 1, Len(chunks) - 1)
        ELSE chunks

\* self.media_table.insert([{"media_file": media_path}]): the row is stored
\* and the sound segments view computes its rows for it
insert_row(cat, table, media_file, file) ==
    [cat EXCEPT ![dir_of(table.name)].media = @ \cup {media_file},
                ![dir_of(table.name)].audio_parts =
                    Put(@, media_file, audio_splitter(file.audio_sec, splitter_arguments))]

\* the reference insert_media puts into the content table
inserted_reference(media_path, processed_media_path) == original_path(media_path).val

\* insert_media(media_path): the catalog afterwards and the outcome
\* what insert_media did is kept with the outcome: whether
\* transcode_media_file was called, what it returned, the reference inserted
insert_media(cat, cp, media_path, file) ==
    LET stops(exc) ==
            [catalog |-> cat, out |-> Raise(exc), transcoded |-> FALSE,
             processed |-> Unset, inserted |-> None]
    IN
    IF cp.media_table.type = "unset"
    THEN stops("AttributeError")
    ELSE IF ~Truthy(cp.media_table)
    THEN stops("ValueError")
    ELSE IF cp.content_table_name.type = "unset"
    THEN stops("AttributeError")
    ELSE LET processed_media_path == transcode_media_file(media_path, file)
             reference == inserted_reference(media_path, processed_media_path)
         IN  IF Truthy(processed_media_path)
             THEN IF table_exists(cat, cp.media_table.name)
                  THEN [catalog |-> insert_row(cat, cp.media_table, reference, file),
                        out |-> Ok(Bool(TRUE)), transcoded |-> TRUE,
                        processed |-> processed_media_path, inserted |-> Str(reference)]
                  ELSE [catalog |-> cat, out |-> Raise("pxt.Error"), transcoded |-> TRUE,
                        processed |-> processed_media_path, inserted |-> None]
             ELSE [catalog |-> cat, out |-> Ok(Bool(TRUE)), transcoded |-> TRUE,
                   processed |-> processed_media_path, inserted |-> None]

(***************************************************************************)
(* media_search_engine.py                                                  *)
(***************************************************************************)
\* the similarity scores of a view's rows for one query, in insertion order
ScoreSeqs == UNION {[1 .. n -> 0 .. MaxScore] : n \in 0 .. MaxRows}

\* rows of the sound segments view with their scores for the query
sound_rows(scores) ==
    [i \in DOMAIN scores |->
        [ pos |-> i - 1,
          start_time_sec |->
              (i - 1) * (Settings.SOUND_SEGMENT_DURATION - Settings.SOUND_OVERLAP_DURATION),
          end_time_sec |->
              (i - 1) * (Settings.SOUND_SEGMENT_DURATION - Settings.SOUND_OVERLAP_DURATION)
                  + Settings.SOUND_SEGMENT_DURATION,
          segment_transcript |-> <<"transcript", i>>,
          match_score |-> scores[i] ]]

\* rows of the visual segments view with their scores for the query
visual_rows(scores) ==
    [i \in DOMAIN scores |->
        [ pos_msec |-> (i - 1) * FrameStepMs,
          visual_description |-> <<"caption", i>>,
          match_score |-> scores[i] ]]

RemoveAt(rows, i) == SubSeq(rows, 1, i - 1) \o SubSeq(rows, i + 1, Len(rows))

\* the row order_by(similarity_scores, asc=False) puts first
first_by_score(rows) ==
    CHOOSE i \in DOMAIN rows :
        \A j \in DOMAIN rows :
            \/ rows[j].match_score < rows[i].match_score
            \/ (rows[j].match_score = rows[i].match_score /\ i <= j)

\* .order_by(similarity_scores, asc=False)
RECURSIVE order_by(_)
order_by(rows) ==
    IF Len(rows) = 0
    THEN <<>>
    ELSE <<rows[first_by_score(rows)]>> \o order_by(RemoveAt(rows, first_by_score(rows)))

\* .limit(result_count).collect()
limit(rows, result_count) ==
    SubSeq(rows, 1, IF result_count < Len(rows) THEN result_count ELSE Len(rows))

find_by_speech_content(rows, result_count) ==
    LET query_results == limit(order_by(rows), result_count)
    IN  Ok([i \in DOMAIN query_results |->
               [ begin_time |-> 1000 * query_results[i].start_time_sec,
                 finish_time |-> 1000 * query_results[i].end_time_sec,
                 match_score |-> query_results[i].match_score ]])

\* the window of a frame: config.FRAME_TIME_BUFFER is read once per record
frame_window(rows, result_count) ==
    LET query_results == limit(order_by(rows), result_count)
        buffer == ConfigAttr("FRAME_TIME_BUFFER")
    IN  IF Len(query_results) = 0
        THEN Ok(<<>>)
        ELSE IF ~buffer.ok
        THEN Raise(buffer.exc)
        ELSE Ok([i \in DOMAIN query_results |->
                    [ begin_time |-> query_results[i].pos_msec - 1000 * buffer.val,
                      finish_time |-> query_results[i].pos_msec + 1000 * buffer.val,
                      match_score |-> query_results[i].match_score ]])

find_by_visual_content(rows, result_count) == frame_window(rows, result_count)

find_by_description(rows, result_count) == frame_window(rows, result_count)

retrieve_speech_details(rows, result_count) ==
    LET query_results == limit(order_by(rows), result_count)
    IN  Ok([i \in DOMAIN query_results |->
               [ transcript_text |-> query_results[i].segment_transcript,
                 match_score |-> query_results[i].match_score ]])

retrieve_description_details(rows, result_count) ==
    LET query_results == limit(order_by(rows), result_count)
    IN  Ok([i \in DOMAIN query_results |->
               [ description_text |-> query_results[i].visual_description,
                 match_score |-> query_results[i].match_score ]])

SoundOps == {"find_by_speech_content", "retrieve_speech_details"}
VisualOps == {"find_by_visual_content", "find_by_description",
              "retrieve_description_details"}
QueryOps == SoundOps \cup VisualOps

\* one query operation of a constructed MediaSearchEngine
run_query(op, scores, result_count) ==
    CASE op = "find_by_speech_content" ->
            find_by_speech_content(sound_rows(scores), result_count)
      [] op = "retrieve_speech_details" ->
            retrieve_speech_details(sound_rows(scores), result_count)
      [] op = "find_by_visual_content" ->
            find_by_visual_content(visual_rows(scores), result_count)
      [] op = "find_by_description" ->
            find_by_description(visual_rows(scores), result_count)
      [] op = "retrieve_description_details" ->
            retrieve_description_details(visual_rows(scores), result_count)

(***************************************************************************)
(* The state machine.                                                      *)
(***************************************************************************)
\* the record of completed work after a call of get_table_registry
Counted(h, g) == IF g.read /\ h.reads < 2 THEN [h EXCEPT !.reads = @ + 1] ELSE h

Idle == [tool |-> "none"]

NoHistory ==
    [ completed |-> {},          \* identifiers an ingest call returned for
      entries |-> EmptyDict,     \* identifier -> the entry last registered for it
      stores |-> [m \in MediaIds |-> 0],   \* stores created per identifier (capped)
      owner |-> EmptyDict,       \* storage namespace -> the identifier it was last created for
      failed |-> {},             \* identifiers whose ingest stopped after creating a namespace
      registered |-> {},         \* identifiers a completed register_new_index call stored
      reads |-> 0 ]              \* times this process read the snapshot directory (capped)

Init ==
    /\ disk = [dir |-> FALSE, files |-> EmptyDict]
    /\ clock = FirstSecond
    /\ catalog = EmptyDict
    /\ heap = [D0 |-> EmptyDict, D1 |-> EmptyDict]
    /\ MEDIA_INDEXES_STORAGE = "D0"
    /\ lru = "miss"
    /\ content_processor = NewMediaAnalyzer
    /\ pc = [t \in Threads |-> "idle"]
    /\ call = [t \in Threads |-> Idle]
    /\ ret = [t \in Threads |-> Unset]
    /\ history = NoHistory

\* the callers that act when calls come one at a time
Sequential == {"t1"}

\* no other caller is inside a call
Alone(t) == \A u \in Threads \ {t} : pc[u] = "idle"

\* a caller invokes analyze_media_content(content_path); file is what the
\* environment holds at that path
CallAnalyze(t, content_path, file) ==
    /\ pc[t] = "idle"
    /\ pc' = [pc EXCEPT ![t] = "verify"]
    /\ call' = [call EXCEPT ![t] =
                   [ tool |-> "analyze_media_content",
                     content_path |-> content_path,
                     file |-> file,
                     prior |-> content_path \in history.completed,
                     retry |-> content_path \in history.failed,
                     made |-> FALSE,
                     registered |-> FALSE,
                     reg_key |-> "",        \* register_new_index: media_identifier
                     reg_file |-> <<>>,     \* register_new_index: the file it opened
                     iter_size |-> 0,       \* register_new_index: dict size at loop start
                     transcoded |-> FALSE,  \* insert_media: transcode_media_file was called
                     processed |-> Unset,   \* insert_media: what transcode_media_file returned
                     inserted |-> None ]]   \* insert_media: the reference it inserted
    /\ UNCHANGED <<disk, clock, catalog, heap, MEDIA_INDEXES_STORAGE, lru,
                   content_processor, ret, history>>

\* tools.py: already_exists = content_processor._verify_existence(content_path)
Verify(t) ==
    /\ pc[t] = "verify"
    /\ LET g == get_table_registry
       IN  /\ heap' = g.heap
           /\ MEDIA_INDEXES_STORAGE' = g.global
           /\ lru' = g.lru
           /\ IF g.exc # ""
              THEN /\ pc' = [pc EXCEPT ![t] = "done"]
                   /\ ret' = [ret EXCEPT ![t] = Raise(g.exc)]
              ELSE IF verify_existence(Deref(g.heap, g.ret), call[t].content_path)
              THEN /\ pc' = [pc EXCEPT ![t] = "done"]
                   /\ ret' = [ret EXCEPT ![t] = Ok(Bool(FALSE))]
              ELSE /\ pc' = [pc EXCEPT ![t] = "init"]
                   /\ ret' = ret
           /\ history' = Counted(history, g)
    /\ UNCHANGED <<disk, clock, catalog, content_processor, call>>

\* initialize_storage(media_identifier) up to the choice of the names
InitStorage(t) ==
    /\ pc[t] = "init"
    /\ LET media_identifier == call[t].content_path
           g == get_table_registry
       IN  IF media_identifier = ""
           THEN /\ pc' = [pc EXCEPT ![t] = "done"]
                /\ ret' = [ret EXCEPT ![t] = Raise("ValueError")]
                /\ UNCHANGED <<heap, MEDIA_INDEXES_STORAGE, lru, content_processor,
                               history>>
           ELSE /\ heap' = g.heap
                /\ history' = Counted(history, g)
                /\ MEDIA_INDEXES_STORAGE' = g.global
                /\ lru' = g.lru
                /\ IF g.exc # ""
                   THEN /\ content_processor' =
                             [content_processor EXCEPT
                                 !.index_mapping_key = Str(media_identifier)]
                        /\ pc' = [pc EXCEPT ![t] = "done"]
                        /\ ret' = [ret EXCEPT ![t] = Raise(g.exc)]
                   ELSE
                   IF verify_existence(Deref(g.heap, g.ret), media_identifier)
                   THEN LET indexed_table == fetch_table(media_identifier).out
                        IN  IF indexed_table.ok
                            THEN /\ content_processor' =
                                      [content_processor EXCEPT
                                          !.index_mapping_key = Str(media_identifier),
                                          !.cache_directory = Str(indexed_table.val.storage_cache),
                                          !.media_table = indexed_table.val.content_table,
                                          !.visual_segments_view =
                                              indexed_table.val.visual_segments_view,
                                          !.sound_segments =
                                              indexed_table.val.sound_segments_view]
                                 /\ pc' = [pc EXCEPT ![t] = "insert"]
                                 /\ ret' = ret
                            ELSE /\ content_processor' =
                                      [content_processor EXCEPT
                                          !.index_mapping_key = Str(media_identifier)]
                                 /\ pc' = [pc EXCEPT ![t] = "done"]
                                 /\ ret' = [ret EXCEPT ![t] = Raise(indexed_table.exc)]
                   ELSE \E suffix \in uuid_suffixes :
                            LET cache_directory == storage_name(suffix)
                            IN  /\ content_processor' =
                                      [content_processor EXCEPT
                                          !.index_mapping_key = Str(media_identifier),
                                          !.cache_directory = Str(cache_directory),
                                          !.content_table_name =
                                              Str(content_name(cache_directory)),
                                          !.visual_segments_name =
                                              Str(visuals_name(cache_directory)),
                                          !.sound_segments_name =
                                              Str(audio_parts_name(cache_directory)),
                                          !.media_table = None]
                                /\ pc' = [pc EXCEPT ![t] = "create"]
                                /\ ret' = ret
    /\ UNCHANGED <<disk, clock, catalog, call>>

\* self._initialize_storage_structure()
CreateStore(t) ==
    /\ pc[t] = "create"
    /\ catalog' = initialize_storage_structure(catalog, content_processor)
    /\ content_processor' =
          [content_processor EXCEPT
              !.media_table = Table(content_processor.content_table_name.val),
              !.sound_segments = Table(content_processor.sound_segments_name.val),
              !.visual_segments_view = Table(content_processor.visual_segments_name.val)]
    /\ call' = [call EXCEPT ![t].made = TRUE]
    /\ history' = [history EXCEPT
                      !.stores[call[t].content_path] = IF @ < 2 THEN @ + 1 ELSE @,
                      !.owner = Put(@, content_processor.cache_directory.val,
                                    call[t].content_path)]
    /\ pc' = [pc EXCEPT ![t] = "register"]
    /\ UNCHANGED <<disk, clock, heap, MEDIA_INDEXES_STORAGE, lru, ret>>

\* self._initialize_storage_structure() raises after n of its creating calls
\* were made: initialize_storage ends there, nothing is registered
FailCreate(t, n) ==
    /\ pc[t] = "create"
    /\ catalog' = storage_structure_until(catalog, content_processor, n)
    /\ content_processor' =
          [content_processor EXCEPT
              !.media_table =
                  IF n >= 2 THEN Table(content_processor.content_table_name.val) ELSE @,
              !.sound_segments =
                  IF n >= 3 THEN Table(content_processor.sound_segments_name.val) ELSE @,
              !.visual_segments_view =
                  IF n >= 4 THEN Table(content_processor.visual_segments_name.val) ELSE @]
    /\ history' = [history EXCEPT
                      !.owner = Put(@, content_processor.cache_directory.val,
                                    call[t].content_path),
                      !.failed = @ \cup {call[t].content_path}]
    /\ ret' = [ret EXCEPT ![t] = Raise("pxt.Error")]
    /\ pc' = [pc EXCEPT ![t] = "done"]
    /\ UNCHANGED <<disk, clock, heap, MEDIA_INDEXES_STORAGE, lru, call>>

\* the text of the most recent snapshot file is damaged or cut short on disk
DamageSnapshot ==
    /\ \A t \in Threads : pc[t] = "idle"
    /\ disk.dir /\ DOMAIN disk.files # {}
    /\ disk.files[most_recent_file(DOMAIN disk.files)].whole
    /\ disk' = [disk EXCEPT !.files[most_recent_file(DOMAIN disk.files)].whole = FALSE]
    /\ UNCHANGED <<clock, catalog, heap, MEDIA_INDEXES_STORAGE, lru,
                   content_processor, pc, call, ret, history>>

\* table_manager.register_new_index(...) with the analyzer's attributes, at
\* the second the wall clock shows: it never goes backwards, and two calls
\* may fall into the same second
Register(t, now) ==
    /\ pc[t] = "register"
    /\ now >= clock
    /\ LET media_identifier == content_processor.index_mapping_key.val
           r == register_new_index(media_identifier,
                                   content_processor.cache_directory.val,
                                   content_processor.visual_segments_name.val,
                                   content_processor.sound_segments_name.val,
                                   now)
       IN  /\ heap' = r.heap
           /\ disk' = r.disk
           /\ history' = [history EXCEPT
                  !.entries =
                      Put(@, media_identifier,
                          [ storage_cache |-> content_processor.cache_directory.val,
                            content_table |-> content_processor.content_table_name.val,
                            visual_segments_view |->
                                content_processor.visual_segments_name.val,
                            sound_segments_view |->
                                content_processor.sound_segments_name.val ]),
                  !.registered = @ \cup {media_identifier}]
           /\ call' = [call EXCEPT ![t].registered = TRUE,
                                   ![t].reg_key = media_identifier,
                                   ![t].reg_file = snapshot_name(now)]
    /\ clock' = now
    /\ pc' = [pc EXCEPT ![t] = "insert"]
    /\ UNCHANGED <<catalog, MEDIA_INDEXES_STORAGE, lru, content_processor, ret>>

\* register_new_index when other threads may run between its statements.
\* Lines 70-77: the arguments are the analyzer's attributes as they are now.
RegisterInsert(t) ==
    /\ pc[t] = "register"
    /\ LET media_identifier == content_processor.index_mapping_key.val
       IN  /\ heap' = register_insert(heap, media_identifier,
                                      content_processor.cache_directory.val,
                                      content_processor.visual_segments_name.val,
                                      content_processor.sound_segments_name.val)
           /\ history' = [history EXCEPT !.entries =
                  Put(@, media_identifier,
                      [ storage_cache |-> content_processor.cache_directory.val,
                        content_table |-> content_processor.content_table_name.val,
                        visual_segments_view |-> content_processor.visual_segments_name.val,
                        sound_segments_view |-> content_processor.sound_segments_name.val ])]
           /\ call' = [call EXCEPT ![t].reg_key = media_identifier]
    /\ pc' = [pc EXCEPT ![t] = "reg_open"]
    /\ UNCHANGED <<disk, clock, catalog, MEDIA_INDEXES_STORAGE, lru, content_processor, ret>>

\* lines 79-84: the file of this second is opened and the loop over the dict
\* begins
RegisterOpen(t, now) ==
    /\ pc[t] = "reg_open"
    /\ now >= clock
    /\ disk' = register_open(disk, now)
    /\ clock' = now
    /\ call' = [call EXCEPT ![t].reg_file = snapshot_name(now),
                            ![t].iter_size = Cardinality(DOMAIN heap[MEDIA_INDEXES_STORAGE])]
    /\ pc' = [pc EXCEPT ![t] = "reg_dump"]
    /\ UNCHANGED <<catalog, heap, MEDIA_INDEXES_STORAGE, lru, content_processor, ret,
                   history>>

\* lines 84-88: the loop runs to its end and the dict is written, or the loop
\* raises and the exception leaves register_new_index and initialize_storage
RegisterDump(t) ==
    /\ pc[t] = "reg_dump"
    /\ LET r == register_dump(heap, disk, call[t].reg_file, call[t].iter_size)
       IN  /\ heap' = r.heap
           /\ disk' = r.disk
           /\ IF r.exc # ""
              THEN /\ pc' = [pc EXCEPT ![t] = "done"]
                   /\ ret' = [ret EXCEPT ![t] = Raise(r.exc)]
                   /\ UNCHANGED <<call, history>>
              ELSE /\ pc' = [pc EXCEPT ![t] = "insert"]
                   /\ call' = [call EXCEPT ![t].registered = TRUE]
                   /\ history' = [history EXCEPT !.registered = @ \cup {call[t].reg_key}]
                   /\ ret' = ret
    /\ UNCHANGED <<clock, catalog, MEDIA_INDEXES_STORAGE, lru, content_processor>>

\* content_processor.insert_media(media_path=content_path)
InsertMedia(t) ==
    /\ pc[t] = "insert"
    /\ LET r == insert_media(catalog, content_processor, call[t].content_path,
                             call[t].file)
       IN  /\ catalog' = r.catalog
           /\ ret' = [ret EXCEPT ![t] = r.out]
           /\ call' = [call EXCEPT ![t].transcoded = r.transcoded,
                                   ![t].processed = r.processed,
                                   ![t].inserted = r.inserted]
    /\ pc' = [pc EXCEPT ![t] = "done"]
    /\ UNCHANGED <<disk, clock, heap, MEDIA_INDEXES_STORAGE, lru,
                   content_processor, history>>

\* MediaSearchEngine(media_identifier) followed by one query operation, as
\* the tools of tools.py do; scores are the similarities of the view's rows
SearchSession(t, media_identifier, op, result_count, scores) ==
    /\ pc[t] = "idle"
    /\ LET f == fetch_table(media_identifier)
       IN  /\ heap' = f.mem.heap
           /\ MEDIA_INDEXES_STORAGE' = f.mem.global
           /\ lru' = f.mem.lru
           /\ history' = Counted(history, f.mem)
           /\ IF f.out.ok
              THEN \* rows exist in the views once a media file was inserted
                   /\ (catalog[f.out.val.storage_cache].media = {} => Len(scores) = 0)
                   /\ ret' = [ret EXCEPT ![t] = run_query(op, scores, result_count)]
                   /\ call' = [call EXCEPT ![t] =
                          [ tool |-> "search", media_identifier |-> media_identifier,
                            op |-> op, result_count |-> result_count,
                            scores |-> scores, queried |-> TRUE ]]
              ELSE /\ Len(scores) = 0
                   /\ ret' = [ret EXCEPT ![t] = f.out]
                   /\ call' = [call EXCEPT ![t] =
                          [ tool |-> "search", media_identifier |-> media_identifier,
                            op |-> op, result_count |-> result_count,
                            scores |-> scores, queried |-> FALSE ]]
    /\ pc' = [pc EXCEPT ![t] = "done"]
    /\ UNCHANGED <<disk, clock, catalog, content_processor>>

\* the call returns or raises to its caller
Return(t) ==
    /\ pc[t] = "done"
    /\ history' =
          IF call[t].tool = "analyze_media_content" /\ ret[t].ok
          THEN [history EXCEPT !.completed = @ \cup {call[t].content_path}]
          ELSE history
    /\ pc' = [pc EXCEPT ![t] = "idle"]
    /\ call' = [call EXCEPT ![t] = Idle]
    /\ ret' = [ret EXCEPT ![t] = Unset]
    /\ UNCHANGED <<disk, clock, catalog, heap, MEDIA_INDEXES_STORAGE, lru,
                   content_processor>>

\* the process ends and a new one starts: module state is rebuilt, the
\* snapshot files and the pixeltable catalog stay
Restart ==
    /\ \A t \in Threads : pc[t] = "idle"
    /\ heap' = [D0 |-> EmptyDict, D1 |-> EmptyDict]
    /\ MEDIA_INDEXES_STORAGE' = "D0"
    /\ lru' = "miss"
    /\ content_processor' = NewMediaAnalyzer
    /\ history' = [history EXCEPT !.reads = 0]
    /\ UNCHANGED <<disk, clock, catalog, pc, call, ret>>

\* the (operation, top_k) pairs the tools of tools.py issue
ToolQueries ==
    { <<"find_by_speech_content", Settings.VIDEO_CLIP_SPEECH_SEARCH_TOP_K>>,
      <<"find_by_description", Settings.VIDEO_CLIP_CAPTION_SEARCH_TOP_K>>,
      <<"find_by_visual_content", Settings.VIDEO_CLIP_IMAGE_SEARCH_TOP_K>>,
      <<"retrieve_description_details", Settings.QUESTION_ANSWER_TOP_K>> }

\* every operation of the engine with every top_k
EngineQueries == QueryOps \X (0 .. MaxK)

\* the program: ingestion, the searches the tools issue, restarts
Next ==
    \/ \E t \in Sequential :
           /\ Alone(t) /\ pc[t] = "idle"
           /\ \E m \in MediaIds, file \in SourceFiles : CallAnalyze(t, m, file)
    \/ \E t \in Sequential : Alone(t) /\ Verify(t)
    \/ \E t \in Sequential : Alone(t) /\ InitStorage(t)
    \/ \E t \in Sequential : Alone(t) /\ CreateStore(t)
    \/ \E t \in Sequential :
           /\ Alone(t) /\ pc[t] = "register"
           /\ \E now \in Times : Register(t, now)
    \/ \E t \in Sequential : Alone(t) /\ InsertMedia(t)
    \/ \E t \in Sequential :
           /\ Alone(t) /\ pc[t] = "idle"
           /\ \E m \in MediaIds, q \in ToolQueries, scores \in ScoreSeqs :
                  SearchSession(t, m, q[1], q[2], scores)
    \/ \E t \in Sequential : Alone(t) /\ Return(t)
    \/ Restart

Spec == Init /\ [][Next]_vars

\* the search engine on its own: one media item is ingested from a readable
\* file, and every operation is called with every top_k
SearchMedia == "a"

NextSearch ==
    \/ \E t \in Sequential :
           /\ Alone(t) /\ pc[t] = "idle"
           /\ \E file \in {f \in SourceFiles : f.transcoded_opens} :
                  CallAnalyze(t, SearchMedia, file)
    \/ \E t \in Sequential : Alone(t) /\ Verify(t)
    \/ \E t \in Sequential : Alone(t) /\ InitStorage(t)
    \/ \E t \in Sequential : Alone(t) /\ CreateStore(t)
    \/ \E t \in Sequential :
           /\ Alone(t) /\ pc[t] = "register"
           /\ \E now \in Times : Register(t, now)
    \/ \E t \in Sequential : Alone(t) /\ InsertMedia(t)
    \/ \E t \in Sequential :
           /\ Alone(t) /\ pc[t] = "idle"
           /\ \E m \in MediaIds, q \in EngineQueries, scores \in ScoreSeqs :
                  SearchSession(t, m, q[1], q[2], scores)
    \/ \E t \in Sequential : Alone(t) /\ Return(t)

SearchSpec == Init /\ [][NextSearch]_vars

\* ingestion of media files whose sound tracks are of every length, by
\* processes that start and end
SplitFiles == {f \in MediaFiles(0 .. MaxAudioSec) : f.opens /\ f.transcoded_opens}

NextSplit ==
    \/ \E t \in Sequential :
           /\ Alone(t) /\ pc[t] = "idle"
           /\ \E file \in SplitFiles : CallAnalyze(t, SearchMedia, file)
    \/ \E t \in Sequential : Alone(t) /\ Verify(t)
    \/ \E t \in Sequential : Alone(t) /\ InitStorage(t)
    \/ \E t \in Sequential : Alone(t) /\ CreateStore(t)
    \/ \E t \in Sequential :
           /\ Alone(t) /\ pc[t] = "register"
           /\ \E now \in Times : Register(t, now)
    \/ \E t \in Sequential : Alone(t) /\ InsertMedia(t)
    \/ \E t \in Sequential : Alone(t) /\ Return(t)

SplitSpec == Init /\ [][NextSplit]_vars

\* the program when its environment fails: a creating call of the storage
\* structure raises, a snapshot file is damaged.  The media files are the
\* ones that open as they are, and a search is one lookup of an identifier.
FaultFiles == {f \in SourceFiles : f.opens /\ f.ffmpeg_ok /\ f.transcoded_opens}

NextFault ==
    \/ \E t \in Sequential :
           /\ Alone(t) /\ pc[t] = "idle"
           /\ \E m \in MediaIds, file \in FaultFiles : CallAnalyze(t, m, file)
    \/ \E t \in Sequential : Alone(t) /\ Verify(t)
    \/ \E t \in Sequential : Alone(t) /\ InitStorage(t)
    \/ \E t \in Sequential : Alone(t) /\ CreateStore(t)
    \/ \E t \in Sequential :
           /\ Alone(t) /\ pc[t] = "create"
           /\ \E n \in DOMAIN structure_steps : FailCreate(t, n)
    \/ \E t \in Sequential :
           /\ Alone(t) /\ pc[t] = "register"
           /\ \E now \in Times : Register(t, now)
    \/ \E t \in Sequential : Alone(t) /\ InsertMedia(t)
    \/ \E t \in Sequential :
           /\ Alone(t) /\ pc[t] = "idle"
           /\ \E m \in MediaIds :
                  SearchSession(t, m, "retrieve_description_details",
                                Settings.QUESTION_ANSWER_TOP_K, <<>>)
    \/ \E t \in Sequential : Alone(t) /\ Return(t)
    \/ Restart
    \/ DamageSnapshot

FaultSpec == Init /\ [][NextFault]_vars

\* the ingest tool called from two threads of one process: the statements of
\* the two calls interleave, and both use the one MediaAnalyzer of tools.py
ConcMedia == {"a", "b"}

NextConc ==
    \/ \E t \in Threads :
           /\ pc[t] = "idle"
           /\ \E m \in ConcMedia, file \in FaultFiles : CallAnalyze(t, m, file)
    \/ \E t \in Threads : Verify(t)
    \/ \E t \in Threads : InitStorage(t)
    \/ \E t \in Threads : CreateStore(t)
    \/ \E t \in Threads : RegisterInsert(t)
    \/ \E t \in Threads :
           /\ pc[t] = "reg_open"
           /\ \E now \in Times : RegisterOpen(t, now)
    \/ \E t \in Threads : RegisterDump(t)
    \/ \E t \in Threads : InsertMedia(t)
    \/ \E t \in Threads : Return(t)

ConcSpec == Init /\ [][NextConc]_vars

(***************************************************************************)
(* Properties.                                                             *)
(***************************************************************************)
\* the registry as the process holds it, values decoded
EntryInfo(v) == IF v.type = "str" THEN IndexedTableInfo(json_loads(v.val)) ELSE v.val

Registry == heap[MEDIA_INDEXES_STORAGE]

\* identifiers found in some snapshot file
Persisted == UNION {{m[1] : m \in disk.files[f].members} : f \in DOMAIN disk.files}

IngestDone(t) == pc[t] = "done" /\ call[t].tool = "analyze_media_content"

SearchDone(t) == pc[t] = "done" /\ call[t].tool = "search"

\* the file cannot be opened, cannot be opened after a transcode either, or
\* does not exist
Unreadable(file) ==
    \/ ~file.exists
    \/ (~file.opens /\ ~(file.ffmpeg_ok /\ file.transcoded_opens))

\* C1: an ingest call made after an ingest call for the same identifier has
\* returned reports "already indexed" (False, where a fresh ingest returns
\* True) and creates and registers nothing; no identifier ever gets a second
\* store when calls come one after the other.
C1_IdempotentIngest ==
    /\ \A t \in Threads :
          IngestDone(t) /\ call[t].prior =>
              /\ ret[t].ok /\ ret[t].val = Bool(FALSE)
              /\ ~call[t].made
              /\ ~call[t].registered
    /\ \A t \in Threads :
          IngestDone(t) /\ call[t].made => ret[t].ok /\ ret[t].val = Bool(TRUE)
    /\ \A m \in MediaIds : history.stores[m] <= 1

\* a second ingest call of an identifier whose store exists has finished
C1_Witness ==
    \E t \in Threads :
        /\ IngestDone(t) /\ call[t].prior
        /\ history.stores[call[t].content_path] = 1

\* C2: in a fresh process (registry not read yet, snapshot files kept), the
\* lookup of every identifier registered so far resolves an entry with the
\* storage_cache, content table and views that were registered.
C2_RegistryRoundTrip ==
    (lru = "miss" /\ \A t \in Threads : pc[t] = "idle") =>
        \A m \in DOMAIN history.entries :
            LET found == fetch_table(m).out
                e == history.entries[m]
            IN  /\ found.ok
                /\ found.val.media_identifier = m
                /\ found.val.storage_cache = e.storage_cache
                /\ found.val.content_table = Table(e.content_table)
                /\ found.val.visual_segments_view = Table(e.visual_segments_view)
                /\ found.val.sound_segments_view = Table(e.sound_segments_view)

\* a process restarted after two identifiers were registered in different
\* snapshot files
C2_Witness ==
    /\ lru = "miss"
    /\ \A t \in Threads : pc[t] = "idle"
    /\ Cardinality(DOMAIN history.entries) = 2
    /\ Cardinality(DOMAIN disk.files) = 2

\* C3: a search on an identifier that is not in the registry ends with an
\* error raised while the engine is constructed; no query operation runs
\* and no result list comes back.
C3_UnregisteredSearchFails ==
    \A t \in Threads :
        SearchDone(t) /\ call[t].media_identifier \notin DOMAIN Registry =>
            /\ ~ret[t].ok
            /\ ~call[t].queried

\* a search on an unregistered identifier while another one is registered
C3_Witness ==
    \E t \in Threads :
        /\ SearchDone(t)
        /\ call[t].media_identifier \notin DOMAIN Registry
        /\ DOMAIN Registry # {}

\* C4: the error of a search on an unknown identifier is the documented
\* not-found kind: the ValueError of MediaSearchEngine.__init__ or the
\* KeyError of fetch_table.
C4_DocumentedNotFound ==
    \A t \in Threads :
        SearchDone(t) /\ call[t].media_identifier \notin DOMAIN Registry =>
            /\ ~ret[t].ok
            /\ ret[t].exc \in {"ValueError", "KeyError"}

Min(a, b) == IF a < b THEN a ELSE b

\* C5: every query operation returns min(top_k, rows) records in descending
\* order of match_score, and the empty sequence for top_k = 0.
C5_TopK ==
    \A t \in Threads :
        SearchDone(t) /\ call[t].queried =>
            /\ ret[t].ok
            /\ Len(ret[t].val) = Min(call[t].result_count, Len(call[t].scores))
            /\ \A i \in 1 .. (Len(ret[t].val) - 1) :
                   ret[t].val[i].match_score >= ret[t].val[i + 1].match_score
            /\ (call[t].result_count = 0 => ret[t].val = <<>>)

\* C6: a frame-based search returns, for every matching row within top_k, a
\* record whose window spans the configured buffer on both sides of the
\* frame's timestamp.
C6_WindowSymmetry ==
    \A t \in Threads :
        SearchDone(t) /\ call[t].queried
            /\ call[t].op \in {"find_by_visual_content", "find_by_description"} =>
            /\ ret[t].ok
            /\ Len(ret[t].val) = Min(call[t].result_count, Len(call[t].scores))
            /\ ConfigAttr("FRAME_TIME_BUFFER").ok
            /\ \A i \in DOMAIN ret[t].val :
                   ret[t].val[i].finish_time - ret[t].val[i].begin_time
                       = 2 * 1000 * ConfigAttr("FRAME_TIME_BUFFER").val

\* C7: a fresh ingest of a file that does not exist, or that opens neither
\* as it is nor after a transcode, fails with MediaUnreadable and does not
\* report success.
C7_UnreadableFails ==
    \A t \in Threads :
        IngestDone(t) /\ call[t].made /\ Unreadable(call[t].file) =>
            /\ ~ret[t].ok
            /\ ret[t].exc = "MediaUnreadable"

\* C8: after a fresh ingest of an unreadable file, the identifier is neither
\* in the in-memory registry nor in any snapshot file.
C8_FailedIngestNotRegistered ==
    \A t \in Threads :
        IngestDone(t) /\ call[t].made /\ Unreadable(call[t].file) =>
            /\ call[t].content_path \notin DOMAIN Registry
            /\ call[t].content_path \notin Persisted

\* C9: no two registry entries share a storage_cache.
C9_NoSharedStorage ==
    \A m1, m2 \in DOMAIN Registry :
        m1 # m2 =>
            EntryInfo(Registry[m1]).storage_cache # EntryInfo(Registry[m2]).storage_cache

\* C10: every register writes the whole registry to a snapshot file that
\* did not exist before, and leaves every earlier snapshot file as it was.
C10_NewSnapshotEachRegister ==
    [][\A t \in Threads :
          pc[t] = "register" /\ pc'[t] = "insert" =>
              /\ \E f \in DOMAIN disk'.files :
                    /\ f \notin DOMAIN disk.files
                    /\ {m[1] : m \in disk'.files[f].members} = DOMAIN Registry'
              /\ \A f \in DOMAIN disk.files :
                    f \in DOMAIN disk'.files /\ disk'.files[f] = disk.files[f]]_vars

\* the step is caller t's first read of the registry in this process, made
\* while the in-memory registry is empty
FirstRead(t) ==
    /\ lru = "miss"
    /\ DOMAIN Registry = {}
    /\ \/ pc[t] = "verify" /\ pc'[t] # "verify"
       \/ pc[t] = "idle" /\ pc'[t] = "done"

\* the snapshot file written last
LastWritten == snapshot_name(clock)

\* C11: the first read of an empty registry returns without an error; when
\* the snapshot directory holds files, the registry then holds exactly the
\* entries of the file with the greatest name, which is the file written
\* last; when the directory is missing or empty, the registry stays empty.
C11_SnapshotDiscovery ==
    [][\A t \in Threads :
          FirstRead(t) =>
              /\ lru' # "miss"
              /\ ~(pc'[t] = "done" /\ ~ret'[t].ok
                       /\ ret'[t].exc \in {"FileNotFoundError", "JSONDecodeError"})
              /\ IF disk.dir /\ DOMAIN disk.files # {}
                 THEN /\ LastWritten \in DOMAIN disk.files
                      /\ \A g \in DOMAIN disk.files : str_le(g, LastWritten)
                      /\ DOMAIN Registry' =
                             {m[1] : m \in disk.files[LastWritten].members}
                      /\ \A m \in disk.files[LastWritten].members :
                             Registry'[m[1]] = Obj(IndexedTableInfo(json_loads(m[2])))
                 ELSE DOMAIN Registry' = {}]_vars

\* a process that read its registry from the later of two snapshot files
\* which hold different entries
C11_Witness ==
    /\ lru = "D1"
    /\ Cardinality(DOMAIN disk.files) = 2
    /\ LastWritten \in DOMAIN disk.files
    /\ DOMAIN Registry = {m[1] : m \in disk.files[LastWritten].members}
    /\ \E f \in DOMAIN disk.files :
           {m[1] : m \in disk.files[f].members} # DOMAIN Registry
    /\ \A t \in Threads : pc[t] \in {"idle", "init"}

\* the storage namespace, the content table and the two views an entry names
\* all exist in the catalog
StoreReady(info) ==
    /\ info.storage_cache \in DOMAIN catalog
    /\ table_exists(catalog, info.content_table)
    /\ table_exists(catalog, info.sound_segments_view)
    /\ table_exists(catalog, info.visual_segments_view)

\* C12: every entry of the in-memory registry and of the most recent snapshot
\* file points at a store whose namespace, content table and two views exist.
C12_RegisteredStoreReady ==
    /\ \A m \in DOMAIN Registry : StoreReady(EntryInfo(Registry[m]))
    /\ (disk.dir /\ DOMAIN disk.files # {}) =>
           \A m \in disk.files[most_recent_file(DOMAIN disk.files)].members :
               StoreReady(IndexedTableInfo(json_loads(m[2])))

\* the entries of the most recent snapshot file
LatestSnapshot == disk.files[most_recent_file(DOMAIN disk.files)]

\* some caller is between the first and the last statement of
\* register_new_index
Registering == \E t \in Threads : pc[t] \in {"reg_open", "reg_dump"}

\* C13: under any interleaving of register calls, no call ends with an
\* error, and once no call is in progress the most recent snapshot file is a
\* whole document that holds every identifier a completed call stored.
C13_RegistersSerialize ==
    /\ \A t \in Threads :
          IngestDone(t) /\ call[t].reg_key # "" => call[t].registered
    /\ (~Registering /\ DOMAIN disk.files # {}) =>
          /\ LatestSnapshot.whole
          /\ history.registered \subseteq {m[1] : m \in LatestSnapshot.members}

\* the storage namespaces of the catalog that were created for identifier m
StoresOf(m) == {d \in DOMAIN catalog : history.owner[d] = m}

\* C14: under any interleaving of ingest calls, no identifier has a store
\* created for it twice, and at most one store exists per identifier.
C14_OneStorePerIdentifier ==
    \A m \in MediaIds :
        /\ history.stores[m] <= 1
        /\ Cardinality(StoresOf(m)) <= 1

\* C15: a process reads the snapshot directory at most once, at its first
\* read of the registry; from then on every exists and lookup is answered
\* from the one cached map, which is the map register writes to.  This
\* includes a first read that found nothing.
C15_LoadedOnce ==
    /\ history.reads <= 1
    /\ lru # "miss" => lru = MEDIA_INDEXES_STORAGE
    /\ (history.reads = 0) = (lru = "miss")

\* a process whose first read found no snapshot answers a later ingest call
\* for a registered identifier while a snapshot file is on disk
C15_Witness ==
    /\ lru = "D0"
    /\ history.reads = 1
    /\ DOMAIN disk.files # {}
    /\ \E t \in Threads : IngestDone(t) /\ call[t].prior /\ ret[t] = Ok(Bool(FALSE))

\* C16: a caller whose registry read meets an unparsable latest snapshot
\* does not get the parse error; the registry starts empty and the call goes
\* on as it does with no snapshot at all.
C16_CorruptionSurvivable ==
    \A t \in Threads :
        pc[t] = "done" => ~(~ret[t].ok /\ ret[t].exc = "JSONDecodeError")

\* the rows of every sound segments view, one sequence per media file
SoundViews ==
    UNION {{catalog[d].audio_parts[f] : f \in DOMAIN catalog[d].audio_parts} :
              d \in DOMAIN catalog}

\* C17: in every sound segments view the chunks start at strictly increasing
\* times, each ends after it starts and is not shorter than the configured
\* minimum, and each chunk but the last overlaps the next one by exactly the
\* configured overlap.
C17_SoundSegmentOrdering ==
    \A rows \in SoundViews :
        /\ \A i \in DOMAIN rows :
              /\ rows[i].end_time_sec > rows[i].start_time_sec
              /\ rows[i].end_time_sec - rows[i].start_time_sec
                     >= Settings.MIN_SOUND_SEGMENT_LENGTH
              /\ rows[i].end_time_sec - rows[i].start_time_sec
                     <= Settings.SOUND_SEGMENT_DURATION
        /\ \A i \in 1 .. (Len(rows) - 1) :
              /\ rows[i].start_time_sec < rows[i + 1].start_time_sec
              /\ (i + 1 < Len(rows) =>
                     rows[i].end_time_sec - rows[i + 1].start_time_sec
                         = Settings.SOUND_OVERLAP_DURATION)

\* a view of three chunks, the last of them shorter than the others
C17_Witness ==
    \E rows \in SoundViews :
        /\ Len(rows) = 3
        /\ rows[3].end_time_sec - rows[3].start_time_sec < Settings.SOUND_SEGMENT_DURATION

\* C18: a fresh ingest of a file that exists and opens does not run the
\* transcode tool, gets the original path back from transcode_media_file and
\* inserts the media, whether or not a transcode would succeed; no file is
\* opened for validation more than once after the original.
C18_TranscodeOnlyOnFailure ==
    \A t \in Threads :
        IngestDone(t) /\ call[t].made /\ call[t].transcoded =>
            /\ open_checks(call[t].file) <= 2
            /\ (call[t].file.opens =>
                   /\ ~runs_ffmpeg(call[t].file)
                   /\ call[t].processed = original_path(call[t].content_path)
                   /\ call[t].inserted.type = "str")

\* C19: the reference a fresh ingest inserts is the path that passed the
\* open check, the original path when the original opened and the
\* transcoded path when only the transcoded file opened; nothing is
\* inserted for a file that did not pass.
C19_ValidatedReferenceInserted ==
    \A t \in Threads :
        IngestDone(t) /\ call[t].made /\ call[t].transcoded =>
            /\ (Unreadable(call[t].file) => call[t].inserted.type = "NoneType")
            /\ (call[t].inserted.type = "str" =>
                   call[t].inserted =
                       IF call[t].file.opens
                       THEN original_path(call[t].content_path)
                       ELSE transcoded_path(call[t].content_path))

\* C20: after an ingest call that retried an identifier whose earlier ingest
\* stopped between creating its storage namespace and registering it, no
\* namespace created for that identifier exists without a registry entry
\* pointing at it.
C20_RetryLeavesNoOrphan ==
    \A t \in Threads :
        IngestDone(t) /\ call[t].retry /\ ret[t].ok =>
            \A d \in StoresOf(call[t].content_path) :
                /\ call[t].content_path \in DOMAIN Registry
                /\ EntryInfo(Registry[call[t].content_path]).storage_cache = d

(***************************************************************************)
(* tools.py: extract_clip_from_user_query                                  *)
(***************************************************************************)
\* media_tools.create_media_clip: the clip of source_path between the times
create_media_clip(source_path, begin_time, finish_time) ==
    IF begin_time >= finish_time
    THEN Raise("ValueError")
    ELSE Ok([ source_path |-> source_path, begin_time |-> begin_time,
              finish_time |-> finish_time ])

\* matches[0] of a Python list
first_match(matches) ==
    IF Len(matches) = 0 THEN Raise("IndexError") ELSE Ok(matches[1])

\* matches[0]["match_score"] if matches else 0
confidence(matches) == IF Len(matches) > 0 THEN matches[1].match_score ELSE 0

\* the body of extract_clip_from_user_query after the engine is constructed:
\* chosen is the modality whose first match the code indexes
extract_clip_from_user_query(content_path, sound_scores, visual_scores) ==
    LET speech == find_by_speech_content(sound_rows(sound_scores),
                      Settings.VIDEO_CLIP_SPEECH_SEARCH_TOP_K)
        description == find_by_description(visual_rows(visual_scores),
                           Settings.VIDEO_CLIP_CAPTION_SEARCH_TOP_K)
    IN  IF ~speech.ok THEN [out |-> speech, chosen |-> "none"]
        ELSE IF ~description.ok THEN [out |-> description, chosen |-> "none"]
        ELSE LET speech_matches == speech.val
                 description_matches == description.val
                 speech_confidence == confidence(speech_matches)
                 description_confidence == confidence(description_matches)
                 chosen == IF speech_confidence > description_confidence
                           THEN "speech" ELSE "description"
                 selected_clip_info ==
                     first_match(IF chosen = "speech"
                                 THEN speech_matches ELSE description_matches)
             IN  IF ~selected_clip_info.ok
                 THEN [out |-> selected_clip_info, chosen |-> chosen]
                 ELSE [ out |-> create_media_clip(content_path,
                                    selected_clip_info.val.begin_time,
                                    selected_clip_info.val.finish_time),
                        chosen |-> chosen ]

\* the tool extract_clip_from_user_query: MediaSearchEngine(content_path),
\* the two searches, the selection and the clip
ExtractClip(t, content_path, sound_scores, visual_scores) ==
    /\ pc[t] = "idle"
    /\ LET f == fetch_table(content_path)
       IN  /\ heap' = f.mem.heap
           /\ MEDIA_INDEXES_STORAGE' = f.mem.global
           /\ lru' = f.mem.lru
           /\ history' = Counted(history, f.mem)
           /\ IF f.out.ok
              THEN LET r == extract_clip_from_user_query(content_path,
                                sound_scores, visual_scores)
                   IN  \* rows exist in the views once a media file was inserted
                       /\ (catalog[f.out.val.storage_cache].media = {} =>
                              Len(sound_scores) = 0 /\ Len(visual_scores) = 0)
                       /\ ret' = [ret EXCEPT ![t] = r.out]
                       /\ call' = [call EXCEPT ![t] =
                              [ tool |-> "extract_clip_from_user_query",
                                content_path |-> content_path,
                                sound_scores |-> sound_scores,
                                visual_scores |-> visual_scores,
                                constructed |-> TRUE, chosen |-> r.chosen ]]
              ELSE /\ Len(sound_scores) = 0 /\ Len(visual_scores) = 0
                   /\ ret' = [ret EXCEPT ![t] = f.out]
                   /\ call' = [call EXCEPT ![t] =
                          [ tool |-> "extract_clip_from_user_query",
                            content_path |-> content_path,
                            sound_scores |-> sound_scores,
                            visual_scores |-> visual_scores,
                            constructed |-> FALSE, chosen |-> "none" ]]
    /\ pc' = [pc EXCEPT ![t] = "done"]
    /\ UNCHANGED <<disk, clock, catalog, content_processor>>

\* the clip tool on its own: one media item is ingested from a readable
\* file, and clips are asked for with every combination of scores
NextClip ==
    \/ \E t \in Sequential :
           /\ Alone(t) /\ pc[t] = "idle"
           /\ \E file \in FaultFiles : CallAnalyze(t, SearchMedia, file)
    \/ \E t \in Sequential : Alone(t) /\ Verify(t)
    \/ \E t \in Sequential : Alone(t) /\ InitStorage(t)
    \/ \E t \in Sequential : Alone(t) /\ CreateStore(t)
    \/ \E t \in Sequential :
           /\ Alone(t) /\ pc[t] = "register"
           /\ \E now \in Times : Register(t, now)
    \/ \E t \in Sequential : Alone(t) /\ InsertMedia(t)
    \/ \E t \in Sequential :
           /\ Alone(t) /\ pc[t] = "idle"
           /\ \E m \in MediaIds, sound_scores \in ScoreSeqs, visual_scores \in ScoreSeqs :
                  ExtractClip(t, m, sound_scores, visual_scores)
    \/ \E t \in Sequential : Alone(t) /\ Return(t)

ClipSpec == Init /\ [][NextClip]_vars

ClipDone(t) ==
    /\ pc[t] = "done"
    /\ call[t].tool = "extract_clip_from_user_query"
    /\ call[t].constructed

\* the top score of a modality, 0 when it has no result
TopScore(scores) ==
    IF Len(scores) = 0 THEN 0
    ELSE CHOOSE s \in {scores[i] : i \in DOMAIN scores} :
             \A i \in DOMAIN scores : scores[i] <= s

\* C21: when at least one of the two modalities has a result, the clip tool
\* does not fail on an empty result list, and the modality it selects is
\* speech exactly when the top speech score is strictly greater than the top
\* description score (a modality without results counting as 0) and is a
\* modality that has a result.
C21_ClipSelection ==
    \A t \in Threads :
        /\ ClipDone(t)
        /\ (Len(call[t].sound_scores) > 0 \/ Len(call[t].visual_scores) > 0)
        => /\ ret[t] # Raise("IndexError")
           /\ (call[t].chosen # "none" =>
                  /\ (call[t].chosen = "speech") =
                         (TopScore(call[t].sound_scores)
                              > TopScore(call[t].visual_scores))
                  /\ (call[t].chosen = "speech" => Len(call[t].sound_scores) > 0)
                  /\ (call[t].chosen = "description" =>
                         Len(call[t].visual_scores) > 0))

\* the storage namespaces whose content table holds the media file of m
HoldersOf(m) ==
    {d \in DOMAIN catalog : original_path(m).val \in catalog[d].media}

\* C22: under any interleaving of ingest calls for two different identifiers
\* through the shared MediaAnalyzer, the media file of an identifier is
\* inserted only into the content table of the store registered for that
\* identifier.
C22_InsertIsolation ==
    \A m \in ConcMedia : \A d \in HoldersOf(m) :
        /\ m \in DOMAIN history.entries
        /\ history.entries[m].storage_cache = d
        /\ history.entries[m].content_table = content_name(d)

\* the registry a read in the current state works on: the cached map, or
\* the map loaded from the snapshot directory when nothing is cached
VisibleRegistry == LET g == get_table_registry IN Deref(g.heap, g.ret)

\* _verify_existence(m) called in the current state
Exists(m) == verify_existence(VisibleRegistry, m)

\* fetch_table(m) called in the current state
Lookup(m) == fetch_table(m).out

\* C23: a registered item is never deleted or mutated: from the step that
\* registers an identifier on, through every later ingest, register of other
\* identifiers, search and restart, the identifier exists and a lookup of it
\* resolves to the storage_cache and table names it was registered with,
\* which never change.
C23_RegisteredDurable ==
    /\ [](\A m \in DOMAIN history.entries :
             /\ Exists(m)
             /\ Lookup(m).ok
             /\ Lookup(m).val.storage_cache = history.entries[m].storage_cache
             /\ Lookup(m).val.content_table = Table(history.entries[m].content_table)
             /\ Lookup(m).val.visual_segments_view =
                    Table(history.entries[m].visual_segments_view)
             /\ Lookup(m).val.sound_segments_view =
                    Table(history.entries[m].sound_segments_view))
    /\ [][\A m \in DOMAIN history.entries :
              /\ m \in DOMAIN history.entries'
              /\ history.entries'[m] = history.entries[m]]_vars

\* a process that loaded an entry from a snapshot has registered a second
\* identifier and then searched the first
C23_Witness ==
    /\ MEDIA_INDEXES_STORAGE = "D1"
    /\ Cardinality(DOMAIN Registry) = 2
    /\ \E t \in Threads :
           /\ SearchDone(t) /\ ret[t].ok
           /\ call[t].media_identifier \in DOMAIN history.entries
           /\ Exists(call[t].media_identifier)
           /\ Lookup(call[t].media_identifier).val.storage_cache =
                  history.entries[call[t].media_identifier].storage_cache

(***************************************************************************)
(* table_manager.py called directly: a client creates a store and          *)
(* registers it, looks identifiers up, and the process restarts            *)
(***************************************************************************)
\* the storage structure of a namespace is created and register_new_index
\* is called for it, whatever the state of the cached registry; the client
\* registers an identifier once
DirectRegister(t, media_identifier, suffix, now) ==
    /\ pc[t] = "idle"
    /\ now >= clock
    /\ media_identifier \notin history.registered
    /\ LET storage_cache == storage_name(suffix)
           names == [NewMediaAnalyzer EXCEPT
                        !.cache_directory = Str(storage_cache),
                        !.content_table_name = Str(content_name(storage_cache)),
                        !.visual_segments_name = Str(visuals_name(storage_cache)),
                        !.sound_segments_name = Str(audio_parts_name(storage_cache))]
           r == register_new_index(media_identifier, storage_cache,
                                   visuals_name(storage_cache),
                                   audio_parts_name(storage_cache), now)
       IN  /\ catalog' = initialize_storage_structure(catalog, names)
           /\ heap' = r.heap
           /\ disk' = r.disk
           /\ history' = [history EXCEPT
                  !.stores[media_identifier] = IF @ < 2 THEN @ + 1 ELSE @,
                  !.owner = Put(@, storage_cache, media_identifier),
                  !.entries =
                      Put(@, media_identifier,
                          [ storage_cache |-> storage_cache,
                            content_table |-> content_name(storage_cache),
                            visual_segments_view |-> visuals_name(storage_cache),
                            sound_segments_view |-> audio_parts_name(storage_cache) ]),
                  !.registered = @ \cup {media_identifier}]
           /\ call' = [call EXCEPT ![t] =
                  [ tool |-> "register_new_index",
                    media_identifier |-> media_identifier,
                    storage_cache |-> storage_cache,
                    cached |-> lru,                      \* the cache before the call
                    snapshots |-> DOMAIN disk.files ]]   \* the files before the call
           /\ ret' = [ret EXCEPT ![t] = Ok(None)]
    /\ clock' = now
    /\ pc' = [pc EXCEPT ![t] = "done"]
    /\ UNCHANGED <<MEDIA_INDEXES_STORAGE, lru, content_processor>>

NextRegistry ==
    \/ \E t \in Sequential :
           /\ Alone(t) /\ pc[t] = "idle"
           /\ \E m \in MediaIds, suffix \in Suffixes, now \in Times :
                  DirectRegister(t, m, suffix, now)
    \/ \E t \in Sequential :
           /\ Alone(t) /\ pc[t] = "idle"
           /\ \E m \in MediaIds :
                  SearchSession(t, m, "retrieve_description_details",
                                Settings.QUESTION_ANSWER_TOP_K, <<>>)
    \/ \E t \in Sequential : Alone(t) /\ Return(t)
    \/ Restart

RegistrySpec == Init /\ [][NextRegistry]_vars

RegisterReturned(t) == pc[t] = "done" /\ call[t].tool = "register_new_index"

\* C24: within one process a register is at once visible to reads: when
\* register_new_index has returned, _verify_existence of the identifier is
\* true and fetch_table resolves the entry just registered, whether the
\* registry had been cached from a snapshot, cached empty, or not read yet;
\* and the map get_table_registry returns is the object register_new_index
\* updates.
C24_RegisterVisible ==
    /\ \A t \in Threads :
           RegisterReturned(t) =>
               /\ Exists(call[t].media_identifier)
               /\ Lookup(call[t].media_identifier).ok
               /\ Lookup(call[t].media_identifier).val.media_identifier =
                      call[t].media_identifier
               /\ Lookup(call[t].media_identifier).val.storage_cache =
                      call[t].storage_cache
               /\ Lookup(call[t].media_identifier).val.content_table =
                      Table(content_name(call[t].storage_cache))
    /\ LET g == get_table_registry
       IN  g.exc = "" => g.ret = g.global

\* a register made before this process read the registry, with a snapshot
\* of another identifier on disk
C24_Witness ==
    \E t \in Threads :
        /\ RegisterReturned(t)
        /\ call[t].cached = "miss"
        /\ call[t].snapshots # {}
        /\ Exists(call[t].media_identifier)
        /\ DOMAIN Registry = {call[t].media_identifier}
        /\ Persisted # {call[t].media_identifier}

====
